---------------------------- MODULE Spec2Model ----------------------------
(***************************************************************************)
(* Model of doc/"Ion Cyclotron Resonance Layers.ipynb": the function       *)
(*                                                                         *)
(*     def R_c(I_tor, f, Z, A, n):                                         *)
(*         m = Z*m_p + (A-Z)*m_n                                           *)
(*         R_c = 0.0073 * n*(Z*e)*I_tor / (m*2*pi*f)                       *)
(*         return R_c                                                      *)
(*                                                                         *)
(* evaluated as CPython evaluates it: Z, A, n are ints, every product and  *)
(* the quotient are IEEE 754 binary64 operations rounded to nearest-even,  *)
(* and a float division by zero raises ZeroDivisionError.  A binary64      *)
(* value is kept as sign, integer significand and binary exponent; the     *)
(* significand does not fit TLC's integers, so it is a little-endian       *)
(* sequence of limbs.                                                      *)
(***************************************************************************)
EXTENDS Integers, Sequences, FiniteSets, TLC

(***************************************************************************)
(* Natural numbers of any size: little-endian limb sequences, no leading   *)
(* zero limb, zero is <<>>.                                                *)
(***************************************************************************)
Base == 2^14

RECURSIVE SBitLen(_)
SBitLen(n) == IF n = 0 THEN 0 ELSE 1 + SBitLen(n \div 2)

LimbBits == SBitLen(Base) - 1

Max(a, b) == IF a >= b THEN a ELSE b

Min(a, b) == IF a <= b THEN a ELSE b

\* x without its leading zero limbs
BTrim(x) ==
    LET n == CHOOSE i \in 0..Len(x) :
                 /\ (i = 0 \/ x[i] # 0)
                 /\ \A j \in (i + 1)..Len(x) : x[j] = 0
    IN  SubSeq(x, 1, n)

RECURSIVE BFromNat(_)
BFromNat(n) == IF n = 0 THEN <<>> ELSE <<n % Base>> \o BFromNat(n \div Base)

BBitLen(x) ==
    IF Len(x) = 0 THEN 0 ELSE (Len(x) - 1) * LimbBits + SBitLen(x[Len(x)])

\* -1, 0 or 1 as x <, =, > y
BCmp(x, y) ==
    IF Len(x) # Len(y) THEN (IF Len(x) < Len(y) THEN -1 ELSE 1)
    ELSE IF x = y THEN 0
    ELSE LET i == CHOOSE j \in 1..Len(x) :
                      x[j] # y[j] /\ \A l \in (j + 1)..Len(x) : x[l] = y[l]
         IN  IF x[i] < y[i] THEN -1 ELSE 1

\* x + y; the carry into limb i is found by lookahead
BAdd(x, y) ==
    LET n == Max(Len(x), Len(y))
        v == [i \in 1..n |-> (IF i <= Len(x) THEN x[i] ELSE 0)
                             + (IF i <= Len(y) THEN y[i] ELSE 0)]
        c(i) == IF \E j \in 1..(i - 1) :
                       v[j] >= Base /\ \A l \in (j + 1)..(i - 1) : v[l] = Base - 1
                THEN 1 ELSE 0
    IN  BTrim([i \in 1..(n + 1) |-> IF i <= n THEN (v[i] + c(i)) % Base ELSE c(i)])

\* x - y for x >= y; the borrow out of the limbs below i by lookahead
BSub(x, y) ==
    IF Len(y) = 0 THEN x ELSE
    LET d == [i \in 1..Len(x) |-> x[i] - (IF i <= Len(y) THEN y[i] ELSE 0)]
        b(i) == IF \E j \in 1..(i - 1) :
                       d[j] < 0 /\ \A l \in (j + 1)..(i - 1) : d[l] = 0
                THEN 1 ELSE 0
    IN  BTrim([i \in 1..Len(x) |-> (d[i] - b(i) + Base) % Base])

\* x * d for a single limb d
BMulLimb(x, d) ==
    IF d = 0 \/ Len(x) = 0 THEN <<>> ELSE
    LET n == Len(x)
        p == [i \in 1..n |-> x[i] * d]
    IN  BAdd([i \in 1..n |-> p[i] % Base],
             [i \in 1..(n + 1) |-> IF i = 1 THEN 0 ELSE p[i - 1] \div Base])

\* x * Base^q
BShiftLimbs(x, q) == IF Len(x) = 0 THEN <<>> ELSE [i \in 1..q |-> 0] \o x

\* the sum of x * y[j] * Base^(j-1) for j in a..b
RECURSIVE BMulRange(_, _, _, _)
BMulRange(x, y, a, b) ==
    IF a = b THEN BShiftLimbs(BMulLimb(x, y[a]), a - 1)
    ELSE LET mid == (a + b) \div 2
         IN  BAdd(BMulRange(x, y, a, mid), BMulRange(x, y, mid + 1, b))

BMul(x, y) ==
    IF Len(y) = 0 \/ Len(x) = 0 THEN <<>> ELSE BMulRange(x, y, 1, Len(y))

\* x * 2^k
BShl(x, k) == BShiftLimbs(BMulLimb(x, 2^(k % LimbBits)), k \div LimbBits)

\* floor(x / 2^k)
BShr(x, k) ==
    LET q == k \div LimbBits
        r == k % LimbBits
        n == Len(x) - q
    IN  IF n <= 0 THEN <<>>
        ELSE BTrim([i \in 1..n |->
                 (x[q + i] \div 2^r)
                 + (IF q + i < Len(x) THEN (x[q + i + 1] % 2^r) * 2^(LimbBits - r)
                    ELSE 0)])

\* bit i of x, bit 0 the lowest
BBit(x, i) ==
    LET l == i \div LimbBits + 1
    IN  IF i < 0 \/ l > Len(x) THEN 0 ELSE (x[l] \div 2^(i % LimbBits)) % 2

\* whether the k lowest bits of x are all zero
BLowZero(x, k) ==
    LET q == k \div LimbBits
        r == k % LimbBits
    IN  /\ \A i \in 1..Min(q, Len(x)) : x[i] = 0
        /\ (q + 1 <= Len(x) => x[q + 1] % 2^r = 0)

\* the value of a natural below 2^31
BToNat(x) ==
    (IF Len(x) >= 1 THEN x[1] ELSE 0)
    + (IF Len(x) >= 2 THEN x[2] * Base ELSE 0)
    + (IF Len(x) >= 3 THEN x[3] * Base * Base ELSE 0)

\* floor(r / d) for d > 0 and r < d * Base: the leading bits of r and d
\* bracket the quotient limb within two candidates of each other
BQuotLimb(r, d) ==
    LET sh == Max(BBitLen(d) - (LimbBits + 1), 0)
        dt == BToNat(BShr(d, sh))
        rt == BToNat(BShr(r, sh))
        cands == {c \in (rt \div (dt + 1))..Min(rt \div dt, Base - 1) :
                      BCmp(BMulLimb(d, c), r) <= 0}
    IN  CHOOSE c \in cands : \A c2 \in cands : c2 <= c

\* Long division, one quotient limb per step from limb j of n downwards:
\* the j low limbs of the quotient and the remainder, r the remainder so far.
RECURSIVE BDivFrom(_, _, _, _)
BDivFrom(n, d, j, r) ==
    IF j = 0 THEN [q |-> <<>>, r |-> r]
    ELSE LET rp == BTrim(<<n[j]>> \o r)
             g == BQuotLimb(rp, d)
             rest == BDivFrom(n, d, j - 1, BSub(rp, BMulLimb(d, g)))
         IN  [q |-> rest.q \o <<g>>, r |-> rest.r]

\* q = floor(n / d) and r = n mod d, for d > 0
BDivMod(n, d) ==
    LET t == Min(Max(Len(n) - Len(d) + 1, 0), Len(n))
        qr == BDivFrom(n, d, t, SubSeq(n, t + 1, Len(n)))
    IN  [q |-> BTrim(qr.q), r |-> qr.r]

(***************************************************************************)
(* binary64.  A finite value is (-1)^s * m * 2^e with m < 2^Prec; it is    *)
(* kept canonical (m >= 2^(Prec-1) unless e = EMin, the subnormals; zero   *)
(* has e = 0) so that equal records are equal bit patterns.                *)
(***************************************************************************)
Prec == 53

EMin == -1074

EMax == 971

Fin(s, m, e) == [k |-> "fin", s |-> s, m |-> m, e |-> e]

Zero(s) == Fin(s, <<>>, 0)

Inf(s) == [k |-> "inf", s |-> s, m |-> <<>>, e |-> 0]

NaN == [k |-> "nan", s |-> 0, m |-> <<>>, e |-> 0]

IsZero(a) == a.k = "fin" /\ Len(a.m) = 0

IsFinite(a) == a.k = "fin"

\* m * 2^e, plus a nonzero amount below the last bit of m when sticky,
\* rounded to nearest, ties to even
Round(s, m, e, sticky) ==
    IF Len(m) = 0 THEN Zero(s)
    ELSE LET L == BBitLen(m)
             E == Max(e + L - Prec, EMin)
         IN  IF E <= e
             THEN (IF E > EMax THEN Inf(s) ELSE Fin(s, BShl(m, e - E), E))
             ELSE LET sh == E - e
                      q == BShr(m, sh)
                      half == BBit(m, sh - 1) = 1
                      rest == sticky \/ ~BLowZero(m, sh - 1)
                      up == half /\ (rest \/ BBit(q, 0) = 1)
                      q1 == IF up THEN BAdd(q, <<1>>) ELSE q
                      carry == BBitLen(q1) > Prec
                      q2 == IF carry THEN BShr(q1, 1) ELSE q1
                      E2 == IF carry THEN E + 1 ELSE E
                  IN  IF E2 > EMax THEN Inf(s)
                      ELSE IF Len(q2) = 0 THEN Zero(s)
                      ELSE Fin(s, q2, E2)

Xor(s, t) == (s + t) % 2

\* float(i) for a Python int i
IntToFloat(i) == Round(IF i < 0 THEN 1 ELSE 0, BFromNat(IF i < 0 THEN -i ELSE i), 0, FALSE)

\* (n / d) * 2^e correctly rounded, for naturals n and d > 0
DivRound(s, n, d, e) ==
    LET k == Max(Prec + 3 + BBitLen(d) - BBitLen(n), 0)
        qr == BDivMod(BShl(n, k), d)
    IN  Round(s, qr.q, e - k, Len(qr.r) # 0)

FNeg(a) == [a EXCEPT !.s = 1 - a.s]

\* a * b
FMul(a, b) ==
    IF a.k = "nan" \/ b.k = "nan" THEN NaN
    ELSE IF a.k = "inf" \/ b.k = "inf"
         THEN (IF IsZero(a) \/ IsZero(b) THEN NaN ELSE Inf(Xor(a.s, b.s)))
    ELSE Round(Xor(a.s, b.s), BMul(a.m, b.m), a.e + b.e, FALSE)

\* a + b
FAdd(a, b) ==
    IF a.k = "nan" \/ b.k = "nan" THEN NaN
    ELSE IF a.k = "inf"
         THEN (IF b.k = "inf" /\ b.s # a.s THEN NaN ELSE a)
    ELSE IF b.k = "inf" THEN b
    ELSE IF IsZero(a) /\ IsZero(b) THEN Zero(IF a.s = 1 /\ b.s = 1 THEN 1 ELSE 0)
    ELSE IF IsZero(a) THEN b
    ELSE IF IsZero(b) THEN a
    ELSE LET e0 == Min(a.e, b.e)
             x == BShl(a.m, a.e - e0)
             y == BShl(b.m, b.e - e0)
             c == BCmp(x, y)
         IN  IF a.s = b.s THEN Round(a.s, BAdd(x, y), e0, FALSE)
             ELSE IF c = 0 THEN Zero(0)
             ELSE IF c > 0 THEN Round(a.s, BSub(x, y), e0, FALSE)
             ELSE Round(b.s, BSub(y, x), e0, FALSE)

\* a / b for b # 0 (Python raises before dividing by a zero)
FDiv(a, b) ==
    IF a.k = "nan" \/ b.k = "nan" THEN NaN
    ELSE IF a.k = "inf"
         THEN (IF b.k = "inf" THEN NaN ELSE Inf(Xor(a.s, b.s)))
    ELSE IF b.k = "inf" \/ IsZero(a) THEN Zero(Xor(a.s, b.s))
    ELSE DivRound(Xor(a.s, b.s), a.m, b.m, a.e - b.e)

\* Python's a == b
FEq(a, b) ==
    /\ a.k # "nan" /\ b.k # "nan"
    /\ (a = b \/ (IsZero(a) /\ IsZero(b)))

\* Python's a < b
FLess(a, b) ==
    IF a.k = "nan" \/ b.k = "nan" THEN FALSE
    ELSE IF IsZero(a) /\ IsZero(b) THEN FALSE
    ELSE IF a.s # b.s THEN (a.s = 1)
    ELSE IF a = b THEN FALSE
    ELSE LET lessMag ==   \* |a| < |b|
                 IF a.k = "inf" THEN FALSE
                 ELSE IF b.k = "inf" THEN TRUE
                 ELSE IF IsZero(a) THEN TRUE
                 ELSE IF IsZero(b) THEN FALSE
                 ELSE IF a.e # b.e THEN a.e < b.e
                 ELSE BCmp(a.m, b.m) < 0
         IN  IF a.s = 0 THEN lessMag ELSE ~lessMag

(***************************************************************************)
(* The names the notebook's first code cell binds.                         *)
(***************************************************************************)
\* scipy.constants (CODATA 2014, the values the notebook's outputs show),
\* each the binary64 nearest to its decimal value
\* pi = 3.141592653589793 = 0x1.921fb54442d18p+1
pi == Fin(0, <<11544, 4368, 8117, 1608>>, -51)

\* e = 1.6021766208e-19 = 0x1.7a4da25c77015p-63
e == Fin(0, <<12309, 5917, 3490, 1513>>, -115)

\* m_p = 1.672621898e-27 = 0x1.09099ada5e771p-89
m_p == Fin(0, <<10097, 13975, 2458, 1060>>, -141)

\* m_n = 1.674927471e-27 = 0x1.0967214ab9902p-89
m_n == Fin(0, <<6402, 4782, 10017, 1061>>, -141)

\* the literal 0.0073 = 0x1.de69ad42c3c9fp-8
k_geom == Fin(0, <<15519, 4272, 10669, 1913>>, -60)

\* a def statement binds its name to a function object
FunctionObject == [k |-> "function", s |-> 0, m |-> <<>>, e |-> 0]

\* the value of a name not bound yet
Unbound == [k |-> "unbound", s |-> 0, m |-> <<>>, e |-> 0]

\* the module namespace once the first code cell has run
NotebookGlobals ==
    [R_c |-> FunctionObject, pi |-> pi, e |-> e, m_p |-> m_p, m_n |-> m_n]

(***************************************************************************)
(* The body of R_c, one operator per expression.  g is the module          *)
(* namespace the global names e, m_p, m_n and pi are looked up in.         *)
(***************************************************************************)
\* a slip: the neutrons left out, m = Z*m_p
IonMassNoNeutrons(g, Z, A) == FMul(IntToFloat(Z), g.m_p)

\* a slip: the neutron count negated, m = Z*m_p + (Z-A)*m_n
IonMassSwapped(g, Z, A) ==
    FAdd(FMul(IntToFloat(Z), g.m_p), FMul(IntToFloat(Z - A), g.m_n))

\* m = Z*m_p + (A-Z)*m_n
IonMass(g, Z, A) ==
    FAdd(FMul(IntToFloat(Z), g.m_p), FMul(IntToFloat(A - Z), g.m_n))

\* a slip: the harmonic number left out, 0.0073 * (Z*e)*I_tor
NumeratorNoHarmonic(g, I_tor, Z, n) ==
    FMul(FMul(k_geom, FMul(IntToFloat(Z), g.e)), I_tor)

\* a slip: the current left out, 0.0073 * n*(Z*e)
NumeratorNoCurrent(g, I_tor, Z, n) ==
    FMul(FMul(k_geom, IntToFloat(n)), FMul(IntToFloat(Z), g.e))

\* 0.0073 * n*(Z*e)*I_tor
Numerator(g, I_tor, Z, n) ==
    FMul(FMul(FMul(k_geom, IntToFloat(n)), FMul(IntToFloat(Z), g.e)), I_tor)

\* a slip: the frequency not turned into an angular one, (m*pi*f)
DenominatorNo2(g, m, f) == FMul(FMul(m, g.pi), f)

\* a slip: the frequency left out, (m*2*pi)
DenominatorNoF(g, m, f) == FMul(FMul(m, IntToFloat(2)), g.pi)

\* (m*2*pi*f)
Denominator(g, m, f) ==
    FMul(FMul(FMul(m, IntToFloat(2)), g.pi), f)

Returned(v) == [kind |-> "value", val |-> v]

Raised(exc) == [kind |-> exc, val |-> Unbound]

NoOutcome == [kind |-> "none", val |-> Unbound]

\* numerator / denominator: a float division by zero raises
Quotient(num, den) ==
    IF IsZero(den) THEN Raised("ZeroDivisionError") ELSE Returned(FDiv(num, den))

\* what a call R_c(I_tor, f, Z, A, n) ends in, under the notebook's globals
R_c(I_tor, f, Z, A, n) ==
    Quotient(Numerator(NotebookGlobals, I_tor, Z, n),
             Denominator(NotebookGlobals, IonMass(NotebookGlobals, Z, A), f))

(***************************************************************************)
(* Bounds and the arguments the calls are drawn from.                      *)
(***************************************************************************)
MaxZ == 3

MaxA == 3

MaxN == 5

\* 1250 (A), the notebook's I_tor
I_1250 == Fin(0, <<0, 0, 0, 1250>>, -42)

\* 2e-303 = 0x1.5f1ca820511c3p-1006
I_tiny == Fin(0, <<4547, 2068, 7336, 1404>>, -1058)

\* 55e6 (Hz), the notebook's f
f_55MHz == Fin(0, <<0, 0, 7648, 1678>>, -27)

\* 63e6 (Hz)
f_63MHz == Fin(0, <<0, 0, 9952, 1922>>, -27)

\* I_tor: the notebook's 1250 A, its negative, no current, and a current
\* so small that the numerator leaves the normal range
I_torValues == {I_1250, FNeg(I_1250), Zero(0), I_tiny}

\* f: the notebook's 55 MHz, another frequency, a negative one, and zero
fValues == {f_55MHz, f_63MHz, FNeg(f_55MHz), Zero(0)}

Args(I_tor, f, Z, A, n) == [I_tor |-> I_tor, f |-> f, Z |-> Z, A |-> A, n |-> n]

AllArgs ==
    {Args(I, f, Z, A, n) : I \in I_torValues, f \in fValues,
                           Z \in 0..MaxZ, A \in 0..MaxA, n \in 1..MaxN}

\* the notebook's own calls, and one with f = 0
NotebookArgs ==
    {Args(I_1250, f_55MHz, 1, A, n) : A \in 1..2, n \in 1..2}
    \cup {Args(I_1250, Zero(0), 1, 1, 1)}

NoArgs == Args(Unbound, Unbound, 0, 0, 0)

(***************************************************************************)
(* State: the module namespace, and per caller (thread) the frame of its   *)
(* call: where it is, its arguments, its locals m and R_c, its outcome.    *)
(* memo is a history variable: what the first call to finish with each     *)
(* argument tuple it records ended in.                                     *)
(***************************************************************************)
VARIABLES globals, frames, memo

vars == <<globals, frames, memo>>

IdleFrame ==
    [pc |-> "idle", args |-> NoArgs, m |-> Unbound, R_c |-> Unbound,
     out |-> NoOutcome]

Finish(t, fr) ==
    /\ frames' = [frames EXCEPT ![t] = fr]
    /\ memo' = IF fr.args \in DOMAIN memo /\ memo[fr.args] = NoOutcome
               THEN [memo EXCEPT ![fr.args] = fr.out]
               ELSE memo

\* R_c(...): look the name R_c up in the module namespace and call it
Call(t, a) ==
    /\ frames[t].pc = "idle"
    /\ IF globals.R_c = FunctionObject
       THEN /\ frames' = [frames EXCEPT ![t] =
                              [IdleFrame EXCEPT !.pc = "line93", !.args = a]]
            /\ memo' = memo
       ELSE Finish(t, [IdleFrame EXCEPT !.pc = "raised", !.args = a,
                                        !.out = Raised("TypeError")])
    /\ UNCHANGED globals

\* m = Z*m_p + (A-Z)*m_n
Line93(t) ==
    /\ frames[t].pc = "line93"
    /\ frames' = [frames EXCEPT ![t].pc = "line94",
                                ![t].m = IonMass(globals, frames[t].args.Z,
                                                 frames[t].args.A)]
    /\ UNCHANGED <<globals, memo>>

\* a slip: the body declaring "global R_c", so that the assignment rebinds
\* the module's name R_c to the float
Line94Global(t) ==
    LET fr == frames[t]
        res == Quotient(Numerator(globals, fr.args.I_tor, fr.args.Z, fr.args.n),
                        Denominator(globals, fr.m, fr.args.f))
    IN  /\ fr.pc = "line94"
        /\ IF res.kind = "value"
           THEN /\ frames' = [frames EXCEPT ![t].pc = "line95",
                                           ![t].R_c = res.val]
                /\ globals' = [globals EXCEPT !.R_c = res.val]
                /\ memo' = memo
           ELSE Finish(t, [fr EXCEPT !.pc = "raised", !.out = res])
                /\ UNCHANGED globals

\* R_c = 0.0073 * n*(Z*e)*I_tor / (m*2*pi*f): R_c is assigned in the body,
\* so the name is local to the call
Line94(t) ==
    LET fr == frames[t]
        res == Quotient(Numerator(globals, fr.args.I_tor, fr.args.Z, fr.args.n),
                        Denominator(globals, fr.m, fr.args.f))
    IN  /\ fr.pc = "line94"
        /\ IF res.kind = "value"
           THEN /\ frames' = [frames EXCEPT ![t].pc = "line95",
                                           ![t].R_c = res.val]
                /\ memo' = memo
           ELSE Finish(t, [fr EXCEPT !.pc = "raised", !.out = res])
        /\ UNCHANGED globals

\* return R_c
Line95(t) ==
    /\ frames[t].pc = "line95"
    /\ Finish(t, [frames[t] EXCEPT !.pc = "returned",
                                   !.out = Returned(frames[t].R_c)])
    /\ UNCHANGED globals

\* the caller takes the outcome and goes on
Resume(t) ==
    /\ frames[t].pc \in {"returned", "raised"}
    /\ frames' = [frames EXCEPT ![t] = IdleFrame]
    /\ UNCHANGED <<globals, memo>>

\* one caller, any arguments
Init ==
    /\ globals = NotebookGlobals
    /\ frames = [t \in {1} |-> IdleFrame]
    /\ memo = [a \in {} |-> NoOutcome]

Next ==
    \/ \E t \in DOMAIN frames : \E a \in AllArgs : Call(t, a)
    \/ \E t \in DOMAIN frames : Line93(t)
    \/ \E t \in DOMAIN frames : Line94(t)
    \/ \E t \in DOMAIN frames : Line95(t)
    \/ \E t \in DOMAIN frames : Resume(t)

Spec == Init /\ [][Next]_vars

\* two callers at once, the notebook's arguments
InitThreads ==
    /\ globals = NotebookGlobals
    /\ frames = [t \in {1, 2} |-> IdleFrame]
    /\ memo = [a \in NotebookArgs |-> NoOutcome]

NextThreads ==
    \/ \E t \in DOMAIN frames : \E a \in NotebookArgs : Call(t, a)
    \/ \E t \in DOMAIN frames : Line93(t)
    \/ \E t \in DOMAIN frames : Line94(t)
    \/ \E t \in DOMAIN frames : Line95(t)
    \/ \E t \in DOMAIN frames : Resume(t)

SpecThreads == InitThreads /\ [][NextThreads]_vars

Done(fr) == fr.pc \in {"returned", "raised"}

(***************************************************************************)
(* What the claims speak of.                                               *)
(***************************************************************************)
\* a call that returned a value
HasReturned(fr) == fr.pc = "returned"

\* the inputs the claims call valid: f # 0, Z >= 1, A >= Z, n >= 1
Valid(a) == ~IsZero(a.f) /\ a.Z >= 1 /\ a.A >= a.Z /\ a.n >= 1

\* zero, or a magnitude between 2^-200 and 2^200: far enough from the ends
\* of the binary64 range that no product or quotient of R_c leaves it
InRange(x) == IsZero(x) \/ (x.k = "fin" /\ x.e + Prec >= -200 /\ x.e + Prec <= 200)

Positive(x) == x.k # "nan" /\ ~IsZero(x) /\ x.s = 0

Negative(x) == x.k # "nan" /\ ~IsZero(x) /\ x.s = 1

\* |x - y| <= 2^-bits * |y| for finite x and y, computed exactly
Close(x, y, bits) ==
    /\ IsFinite(x) /\ IsFinite(y)
    /\ IF IsZero(x) \/ IsZero(y) THEN IsZero(x) /\ IsZero(y)
       ELSE /\ x.s = y.s
            /\ LET e0 == Min(x.e, y.e)
                   X == BShl(x.m, x.e - e0)
                   Y == BShl(y.m, y.e - e0)
                   d == IF BCmp(X, Y) >= 0 THEN BSub(X, Y) ELSE BSub(Y, X)
               IN  BCmp(BShl(d, bits), Y) <= 0

\* the value of an outcome that is a returned value, NaN otherwise (NaN
\* equals nothing, is close to nothing and is less than nothing)
ValueOf(out) == IF out.kind = "value" THEN out.val ELSE NaN

Two == IntToFloat(2)

(***************************************************************************)
(* Error outcomes.                                                         *)
(***************************************************************************)
\* C2: a call with f = 0 ends in an InvalidArgument error and never returns
\* a value
C2_ZeroFrequencyInvalidArgument ==
    \A t \in DOMAIN frames :
        Done(frames[t]) /\ IsZero(frames[t].args.f)
            => frames[t].out.kind = "InvalidArgument"

\* C3: a call with A < Z ends in an InvalidArgument error and returns no
\* radius
C3_FewerNucleonsThanChargeInvalidArgument ==
    \A t \in DOMAIN frames :
        Done(frames[t]) /\ frames[t].args.A < frames[t].args.Z
            => frames[t].out.kind = "InvalidArgument"

\* C4: a call whose ion mass m = Z*m_p + (A-Z)*m_n comes out zero or
\* negative ends in an InvalidArgument error instead of returning a value
C4_NonPositiveMassInvalidArgument ==
    \A t \in DOMAIN frames :
        Done(frames[t]) /\ (IsZero(frames[t].m) \/ Negative(frames[t].m))
            => frames[t].out.kind = "InvalidArgument"

(***************************************************************************)
(* The formula.                                                            *)
(***************************************************************************)
\* k*n*Z*e*I_tor / (m*2*pi*f) as the claim writes it, each product taken
\* left to right in binary64
LeftToRight(a) ==
    FDiv(FMul(FMul(FMul(FMul(k_geom, IntToFloat(a.n)), IntToFloat(a.Z)), e), a.I_tor),
         FMul(FMul(FMul(IonMass(NotebookGlobals, a.Z, a.A), Two), pi), a.f))

\* |k*n*Z*e*I_tor|, the real number, as the natural .m times 2^.e
ExactNumerator(a) ==
    [m |-> BMul(BMul(BMul(k_geom.m, BFromNat(a.n * a.Z)), e.m), a.I_tor.m),
     e |-> k_geom.e + e.e + a.I_tor.e]

\* |m*2*pi*f| with m = Z*m_p + (A-Z)*m_n, the real number, for A >= Z
ExactDenominator(a) ==
    LET e0 == Min(m_p.e, m_n.e)
        mass == BAdd(BMul(BFromNat(a.Z), BShl(m_p.m, m_p.e - e0)),
                     BMul(BFromNat(a.A - a.Z), BShl(m_n.m, m_n.e - e0)))
    IN  [m |-> BMul(BMul(BMul(mass, <<2>>), pi.m), a.f.m),
         e |-> e0 + pi.e + a.f.e]

\* |r - num/den| <= 2^-bits * (num/den) for a finite r >= 0 and den > 0
WithinOfRatio(r, num, den, bits) ==
    LET x == BMul(r.m, den.m)
        xe == r.e + den.e
        e0 == Min(xe, num.e - bits)
        X == BShl(x, xe - e0)
        Y == BShl(num.m, num.e - e0)
        d == IF BCmp(X, Y) >= 0 THEN BSub(X, Y) ELSE BSub(Y, X)
    IN  BCmp(d, BShl(num.m, num.e - bits - e0)) <= 0

\* C1 as claimed: for f # 0, Z >= 1, A >= Z, n >= 1 the call returns exactly
\* k*n*Z*e*I_tor / (m*2*pi*f)
C1_ReturnsFormulaExactly ==
    \A t \in DOMAIN frames :
        HasReturned(frames[t]) /\ Valid(frames[t].args)
            => frames[t].out.val = LeftToRight(frames[t].args)

\* C1 as amended: for f # 0, Z >= 1, A >= Z, n >= 1 and I_tor, f in range
\* the call returns a value, of the sign of I_tor/f, within 2^-49 (relative)
\* of the real number k*n*Z*e*I_tor / (m*2*pi*f)
C1_ReturnsFormulaRounded ==
    \A t \in DOMAIN frames :
        LET a == frames[t].args
            r == frames[t].out.val
        IN  Done(frames[t]) /\ Valid(a) /\ InRange(a.I_tor) /\ InRange(a.f)
                => /\ HasReturned(frames[t])
                   /\ IsFinite(r)
                   /\ IF IsZero(a.I_tor) THEN IsZero(r)
                      ELSE /\ ~IsZero(r) /\ r.s = Xor(a.I_tor.s, a.f.s)
                           /\ WithinOfRatio(r, ExactNumerator(a),
                                            ExactDenominator(a), 49)

\* the notebook's first call, R_c(I_tor=1250, f=55e6, Z=1, A=1, n=1), has
\* returned the 2.529315044030706 the notebook shows
C1_NotebookHydrogenFundamental ==
    \E t \in DOMAIN frames :
        /\ HasReturned(frames[t])
        /\ frames[t].args = Args(I_1250, f_55MHz, 1, 1, 1)
        /\ frames[t].out.val = Fin(0, <<9271, 6764, 152, 1295>>, -51)

(***************************************************************************)
(* Proportionality.  The other call of a pair is the function applied to   *)
(* the changed arguments.                                                  *)
(***************************************************************************)
\* C5 as claimed: for valid arguments, R_c(I_tor, f, Z, A, 2*n) =
\* 2 * R_c(I_tor, f, Z, A, n)
C5_DoublingHarmonicDoubles ==
    \A t \in DOMAIN frames :
        LET a == frames[t].args
        IN  HasReturned(frames[t]) /\ Valid(a)
                => FEq(ValueOf(R_c(a.I_tor, a.f, a.Z, a.A, 2 * a.n)),
                       FMul(Two, frames[t].out.val))

\* C5 as amended: the same, for I_tor and f in range (no underflow)
C5_DoublingHarmonicDoublesInRange ==
    \A t \in DOMAIN frames :
        LET a == frames[t].args
        IN  HasReturned(frames[t]) /\ Valid(a) /\ InRange(a.I_tor) /\ InRange(a.f)
                => FEq(ValueOf(R_c(a.I_tor, a.f, a.Z, a.A, 2 * a.n)),
                       FMul(Two, frames[t].out.val))

\* the deuterium call R_c(1250, 55e6, 1, 2, 1) has returned the notebook's
\* 1.263786508651366, and with n = 2 the function gives the notebook's
\* 2.527573017302732
C5_NotebookDeuteriumHarmonics ==
    \E t \in DOMAIN frames :
        /\ HasReturned(frames[t])
        /\ frames[t].args = Args(I_1250, f_55MHz, 1, 2, 1)
        /\ frames[t].out.val = Fin(0, <<2504, 3826, 1923, 1294>>, -52)
        /\ R_c(I_1250, f_55MHz, 1, 2, 2)
               = Returned(Fin(0, <<2504, 3826, 1923, 1294>>, -51))

\* scale factors: 2, 1/2 and -1 are exact in binary floating point, 3 and
\* 5 are not powers of two
BinaryScales == {Two, Fin(0, <<0, 0, 0, 8192>>, -53), IntToFloat(-1)}

OtherScales == {IntToFloat(3), IntToFloat(5)}

\* C6 as claimed: for valid arguments and every factor c,
\* R_c(c*I_tor, f, Z, A, n) = c * R_c(I_tor, f, Z, A, n)
C6_ScalingCurrentScales ==
    \A t \in DOMAIN frames :
        LET a == frames[t].args
        IN  HasReturned(frames[t]) /\ Valid(a)
                => \A c \in BinaryScales \cup OtherScales :
                       FEq(ValueOf(R_c(FMul(c, a.I_tor), a.f, a.Z, a.A, a.n)),
                           FMul(c, frames[t].out.val))

\* C6 as amended: for I_tor and f in range the two are equal when c is a
\* power of two or its negative, and within 2^-50 (relative) of each other
\* for any other c
C6_ScalingCurrentScalesRounded ==
    \A t \in DOMAIN frames :
        LET a == frames[t].args
        IN  HasReturned(frames[t]) /\ Valid(a) /\ InRange(a.I_tor) /\ InRange(a.f)
                => /\ \A c \in BinaryScales :
                          FEq(ValueOf(R_c(FMul(c, a.I_tor), a.f, a.Z, a.A, a.n)),
                              FMul(c, frames[t].out.val))
                   /\ \A c \in OtherScales :
                          Close(ValueOf(R_c(FMul(c, a.I_tor), a.f, a.Z, a.A, a.n)),
                                FMul(c, frames[t].out.val), 50)

\* the notebook's first call has returned, and five times its current gives
\* a radius that is close to, and not the same float as, five times its
\* radius
C6_FiveTimesCurrentOffByRounding ==
    \E t \in DOMAIN frames :
        /\ HasReturned(frames[t])
        /\ frames[t].args = Args(I_1250, f_55MHz, 1, 1, 1)
        /\ LET lhs == ValueOf(R_c(FMul(IntToFloat(5), I_1250), f_55MHz, 1, 1, 1))
               rhs == FMul(IntToFloat(5), frames[t].out.val)
           IN  lhs # rhs /\ Close(lhs, rhs, 50)

\* C7 as claimed: for valid arguments and nonzero f1, f2,
\* R_c(I_tor, f1, Z, A, n) * f1 = R_c(I_tor, f2, Z, A, n) * f2
C7_RadiusTimesFrequencyConstant ==
    \A t \in DOMAIN frames :
        LET a == frames[t].args
        IN  HasReturned(frames[t]) /\ Valid(a)
                => \A f2 \in {f \in fValues : ~IsZero(f)} :
                       FEq(FMul(frames[t].out.val, a.f),
                           FMul(ValueOf(R_c(a.I_tor, f2, a.Z, a.A, a.n)), f2))

\* C7 as amended: for I_tor, f1 and f2 in range the two products are within
\* 2^-50 (relative) of each other, and equal when f2 = -f1
C7_RadiusTimesFrequencyConstantRounded ==
    \A t \in DOMAIN frames :
        LET a == frames[t].args
        IN  HasReturned(frames[t]) /\ Valid(a) /\ InRange(a.I_tor) /\ InRange(a.f)
                => /\ \A f2 \in {f \in fValues : ~IsZero(f) /\ InRange(f)} :
                          Close(FMul(frames[t].out.val, a.f),
                                FMul(ValueOf(R_c(a.I_tor, f2, a.Z, a.A, a.n)), f2), 50)
                   /\ FEq(FMul(frames[t].out.val, a.f),
                          FMul(ValueOf(R_c(a.I_tor, FNeg(a.f), a.Z, a.A, a.n)),
                               FNeg(a.f)))

\* the notebook's first call (55 MHz) has returned, and its radius times
\* 55e6 is close to, and not the same float as, the 63 MHz radius times 63e6
C7_TwoFrequenciesOffByRounding ==
    \E t \in DOMAIN frames :
        /\ HasReturned(frames[t])
        /\ frames[t].args = Args(I_1250, f_55MHz, 1, 1, 1)
        /\ LET lhs == FMul(frames[t].out.val, f_55MHz)
               rhs == FMul(ValueOf(R_c(I_1250, f_63MHz, 1, 1, 1)), f_63MHz)
           IN  lhs # rhs /\ Close(lhs, rhs, 50)

(***************************************************************************)
(* Order and sign.                                                         *)
(***************************************************************************)
\* the mass numbers above A that the model compares with
HeavierThan(A) == (A + 1)..(MaxA + 1)

\* C8 as claimed: for valid arguments, negative I_tor included, and
\* Z <= A1 < A2, R_c(I_tor, f, Z, A2, n) < R_c(I_tor, f, Z, A1, n)
C8_HeavierIsotopeSmallerRadius ==
    \A t \in DOMAIN frames :
        LET a == frames[t].args
        IN  HasReturned(frames[t]) /\ Valid(a)
                => \A A2 \in HeavierThan(a.A) :
                       FLess(ValueOf(R_c(a.I_tor, a.f, a.Z, A2, a.n)),
                             frames[t].out.val)

\* C8 as amended: for I_tor and f in range, the heavier isotope has the
\* smaller radius when I_tor and f have the same sign, the larger one when
\* their signs differ, and the same radius, zero, when I_tor = 0
C8_HeavierIsotopeSmallerMagnitude ==
    \A t \in DOMAIN frames :
        LET a == frames[t].args
        IN  HasReturned(frames[t]) /\ Valid(a) /\ InRange(a.I_tor) /\ InRange(a.f)
                => \A A2 \in HeavierThan(a.A) :
                       LET r2 == ValueOf(R_c(a.I_tor, a.f, a.Z, A2, a.n))
                       IN  IF IsZero(a.I_tor) THEN FEq(r2, frames[t].out.val)
                           ELSE IF a.I_tor.s = a.f.s THEN FLess(r2, frames[t].out.val)
                           ELSE FLess(frames[t].out.val, r2)

\* the hydrogen call with the current reversed, R_c(-1250, 55e6, 1, 1, 1),
\* has returned a radius below the deuterium one
C8_ReversedCurrentReversesOrder ==
    \E t \in DOMAIN frames :
        /\ HasReturned(frames[t])
        /\ frames[t].args = Args(FNeg(I_1250), f_55MHz, 1, 1, 1)
        /\ frames[t].out.val = FNeg(Fin(0, <<9271, 6764, 152, 1295>>, -51))
        /\ FLess(frames[t].out.val, ValueOf(R_c(FNeg(I_1250), f_55MHz, 1, 2, 1)))

\* C10 as claimed: for f > 0, Z >= 1, A >= Z, n >= 1 the result is 0
\* exactly when I_tor = 0, positive when I_tor > 0, negative when I_tor < 0
C10_ResultHasSignOfCurrent ==
    \A t \in DOMAIN frames :
        LET a == frames[t].args
            r == frames[t].out.val
        IN  Done(frames[t]) /\ Valid(a) /\ Positive(a.f)
                => /\ HasReturned(frames[t])
                   /\ IsZero(r) <=> IsZero(a.I_tor)
                   /\ Positive(a.I_tor) => Positive(r)
                   /\ Negative(a.I_tor) => Negative(r)

\* C10 as amended: for f > 0, Z >= 1, A >= Z, n >= 1 a returned result is
\* 0 when I_tor = 0 and never has the sign opposite to I_tor's; for I_tor
\* and f in range the call does return, a positive result when I_tor > 0
\* and a negative one when I_tor < 0
C10_ResultNeverOfOppositeSign ==
    \A t \in DOMAIN frames :
        LET a == frames[t].args
            r == frames[t].out.val
        IN  Done(frames[t]) /\ Valid(a) /\ Positive(a.f)
                => /\ HasReturned(frames[t])
                          => /\ IsZero(a.I_tor) => IsZero(r)
                             /\ Positive(a.I_tor) => ~Negative(r)
                             /\ Negative(a.I_tor) => ~Positive(r)
                   /\ InRange(a.I_tor) /\ InRange(a.f)
                          => /\ HasReturned(frames[t])
                             /\ Positive(a.I_tor) => Positive(r)
                             /\ Negative(a.I_tor) => Negative(r)

\* a call with the current reversed and f > 0, R_c(-1250, 55e6, 1, 2, 2),
\* has returned a negative radius
C10_ReversedCurrentNegativeRadius ==
    \E t \in DOMAIN frames :
        /\ HasReturned(frames[t])
        /\ frames[t].args = Args(FNeg(I_1250), f_55MHz, 1, 2, 2)
        /\ Negative(frames[t].out.val)
        /\ frames[t].out.val = FNeg(Fin(0, <<2504, 3826, 1923, 1294>>, -51))

(***************************************************************************)
(* Calls side by side.                                                     *)
(***************************************************************************)
\* C9: whatever calls have run or are running, the module's names R_c, e,
\* m_p, m_n and pi are bound as the first cell bound them, no call fails
\* for R_c not being callable, and every finished call has ended as the
\* first finished call with the same five arguments did
C9_CallsLeaveNoTrace ==
    /\ globals = NotebookGlobals
    /\ \A t \in DOMAIN frames :
           Done(frames[t])
               => /\ frames[t].out.kind # "TypeError"
                  /\ frames[t].args \in DOMAIN memo
                         => frames[t].out = memo[frames[t].args]

\* after an earlier call with other arguments, one caller has finished
\* R_c(1250, 55e6, 1, 1, 2) with the notebook's 5.058630088061412 while the
\* other is in the middle of the same call, its local R_c assigned and not
\* yet returned
C9_SameCallBesideRunningCall ==
    /\ HasReturned(frames[2])
    /\ frames[2].args = Args(I_1250, f_55MHz, 1, 1, 2)
    /\ frames[2].out = Returned(Fin(0, <<9271, 6764, 152, 1295>>, -50))
    /\ memo[frames[2].args] = frames[2].out
    /\ frames[1].pc = "line95"
    /\ frames[1].args = frames[2].args
    /\ frames[1].R_c = frames[2].out.val
    /\ memo[Args(I_1250, f_55MHz, 1, 2, 1)] # NoOutcome
=============================================================================
